---- MODULE Spec2Model ----
(***************************************************************************)
(* A model of rapidmoc/rapidmoc.py: main() and call_plotdiag().            *)
(*                                                                         *)
(* The run is a straight-line program.  Every statement of main() and of   *)
(* call_plotdiag() that calls into another module (sections, transports,   *)
(* observations, plotdiag) or into the configuration object is one action; *)
(* such a call either returns or raises, and a raise ends the run because  *)
(* neither function holds a try statement.  The variable log records every *)
(* call in the order it was made, with the arguments it was handed.        *)
(*                                                                         *)
(* Strings are sequences of symbols.  A symbol is one character ("d", "%") *)
(* or a word that holds no "%" ("fdir", "true").  None is the empty        *)
(* sequence and Some(v) the one-element sequence <<v>>, so that an         *)
(* optional value is always a sequence.                                    *)
(***************************************************************************)
EXTENDS Integers, Sequences, FiniteSets, TLC

VARIABLES
    args,       \* the parsed command line (get_args)
    fileConfig, \* the configuration as read from the file (get_config); never written
    config,     \* the ConfigParser object main() works on
    pc,         \* the statement the run is at
    err,        \* the exception that ended the run, "" while none
    env,        \* the local variables of main(): t, s, tau, v, t_on_v, s_on_v, trans
    loc,        \* the local variables of call_plotdiag()
    log,        \* the calls made so far, oldest first
    handle      \* the output handle of the transport result: "none", "open", "closed"

vars == <<args, fileConfig, config, pc, err, env, loc, log, handle>>

\* ------------------------------------------------------------------ bounds

\* Longest --name / --outdir value drawn.
MaxLen == 2

\* ------------------------------------------------------------------ values

None == <<>>
Some(v) == <<v>>
IsNone(o) == o = None
Val(o) == o[1]

\* The characters a command-line value is made of.
Alphabet == {"d", "%"}

SeqsUpTo(S, n) == UNION {[1..k -> S] : k \in 0..n}

CliValues == SeqsUpTo(Alphabet, MaxLen)

OptOf(S) == {None} \cup {Some(v) : v \in S}

\* ------------------------------------------------------------ configparser

\* str.replace('%%', ''): left to right, non-overlapping.
RECURSIVE StripPairs(_)
StripPairs(s) ==
    IF s = <<>> THEN <<>>
    ELSE IF Len(s) >= 2 /\ s[1] = "%" /\ s[2] = "%" THEN StripPairs(SubSeq(s, 3, Len(s)))
    ELSE <<s[1]>> \o StripPairs(Tail(s))

HasPercent(s) == \E i \in 1..Len(s) : s[i] = "%"

\* BasicInterpolation.before_set: a "%" that is neither doubled nor the head
\* of a %(name)s reference is refused.  (No symbol here is a parenthesis, so
\* the reference pattern never matches.)
ValidForSet(value) == ~HasPercent(StripPairs(value))

\* BasicInterpolation.before_get: "%%" reads as "%", any other "%" is an
\* InterpolationSyntaxError, every other symbol reads as itself.
RECURSIVE Interpolate(_)
Interpolate(raw) ==
    IF raw = <<>> THEN [ok |-> TRUE, val |-> <<>>]
    ELSE IF raw[1] # "%" THEN
        LET rest == Interpolate(Tail(raw))
        IN  [ok |-> rest.ok, val |-> <<raw[1]>> \o rest.val]
    ELSE IF Len(raw) >= 2 /\ raw[2] = "%" THEN
        LET rest == Interpolate(SubSeq(raw, 3, Len(raw)))
        IN  [ok |-> rest.ok, val |-> <<"%">> \o rest.val]
    ELSE [ok |-> FALSE, val |-> <<>>]

\* A configuration: its sections, and the raw value of every option, keyed by
\* <<section, option>>.
HasSection(c, section) == section \in c.sections

HasOption(c, section, option) ==
    HasSection(c, section) /\ <<section, option>> \in DOMAIN c.opts

\* config.set(section, option, value)
ConfigSet(c, section, option, value) ==
    IF ~HasSection(c, section) THEN [ok |-> FALSE, err |-> "NoSectionError", config |-> c]
    ELSE IF value # <<>> /\ ~ValidForSet(value)
         THEN [ok |-> FALSE, err |-> "ValueError", config |-> c]
    ELSE [ok |-> TRUE, err |-> "",
          config |-> [c EXCEPT !.opts =
                        [k \in DOMAIN c.opts \cup {<<section, option>>} |->
                            IF k = <<section, option>> THEN value ELSE c.opts[k]]]]

\* config.get(section, option)
ConfigGet(c, section, option) ==
    IF ~HasSection(c, section) THEN [ok |-> FALSE, err |-> "NoSectionError", val |-> <<>>]
    ELSE IF ~HasOption(c, section, option)
         THEN [ok |-> FALSE, err |-> "NoOptionError", val |-> <<>>]
    ELSE LET r == Interpolate(c.opts[<<section, option>>])
         IN  IF r.ok THEN [ok |-> TRUE, err |-> "", val |-> r.val]
             ELSE [ok |-> FALSE, err |-> "InterpolationSyntaxError", val |-> <<>>]

\* RawConfigParser.BOOLEAN_STATES
TrueWords == {<<"1">>, <<"yes">>, <<"true">>, <<"on">>}
FalseWords == {<<"0">>, <<"no">>, <<"false">>, <<"off">>}

\* config.getboolean(section, option)
ConfigGetBoolean(c, section, option) ==
    LET g == ConfigGet(c, section, option)
    IN  IF ~g.ok THEN [ok |-> FALSE, err |-> g.err, val |-> FALSE]
        ELSE IF g.val \in TrueWords THEN [ok |-> TRUE, err |-> "", val |-> TRUE]
        ELSE IF g.val \in FalseWords THEN [ok |-> TRUE, err |-> "", val |-> FALSE]
        ELSE [ok |-> FALSE, err |-> "ValueError", val |-> FALSE]

\* get_config_opt(config, section, option): the option if it exists, else None.
\* (An option that exists and cannot be interpolated raises; the files drawn
\* here hold no such observation entry.)
get_config_opt(c, section, option) ==
    IF HasOption(c, section, option) THEN Some(ConfigGet(c, section, option).val)
    ELSE None

\* ------------------------------------------------------------------ inputs

\* The four optional entries of [observations] that name a source file.
ObsKeys == {"streamfunctions", "florida_current", "volume_transports", "heat_transports"}

\* The raw values the configuration files drawn here hold.
FileName == <<"fname">>
FileOutdir == <<"fdir">>
FileDateFormat == <<"%", "%", "Y">>
FileTimeAvg == <<"monthly">>
FilePath(k) == <<k>>
PlotWords == {<<"true">>, <<"0">>, <<"maybe">>}
\* The entries a file may hold with an empty value.
MayBeEmpty == {"heat_transports"}

\* A configuration file: an [output] section (or none) with name and outdir,
\* with or without date_format and plot; an [observations] section (or none)
\* with any of its five entries, those of emptyKeys left empty ("key =").
MkConfig(hasOutput, hasDateFormat, plot, hasObs, keys, emptyKeys, hasTimeAvg) ==
    LET outKeys == IF hasOutput
                   THEN {<<"output", "name">>, <<"output", "outdir">>}
                        \cup (IF hasDateFormat THEN {<<"output", "date_format">>} ELSE {})
                        \cup (IF IsNone(plot) THEN {} ELSE {<<"output", "plot">>})
                   ELSE {}
        obsKeys == IF hasObs
                   THEN {<<"observations", k>> : k \in keys}
                        \cup (IF hasTimeAvg THEN {<<"observations", "time_avg">>} ELSE {})
                   ELSE {}
        raw(k) == IF k = <<"output", "name">> THEN FileName
                  ELSE IF k = <<"output", "outdir">> THEN FileOutdir
                  ELSE IF k = <<"output", "date_format">> THEN FileDateFormat
                  ELSE IF k = <<"output", "plot">> THEN Val(plot)
                  ELSE IF k = <<"observations", "time_avg">> THEN FileTimeAvg
                  ELSE IF k[2] \in emptyKeys THEN <<>>
                  ELSE FilePath(k[2])
    IN  [sections |-> (IF hasOutput THEN {"output"} ELSE {})
                      \cup (IF hasObs THEN {"observations"} ELSE {}),
         opts |-> [k \in outKeys \cup obsKeys |-> raw(k)]]

FileConfigs ==
    {MkConfig(ho, hd, p, hb, ks, es, ht) :
        ho \in BOOLEAN, hd \in BOOLEAN, p \in OptOf(PlotWords),
        hb \in BOOLEAN, ks \in SUBSET ObsKeys, es \in SUBSET MayBeEmpty, ht \in BOOLEAN}

\* get_args: the five positional paths and the two optional overrides.
ArgSets ==
    {[config_file |-> "config_file", tfile |-> "tfile", sfile |-> "sfile",
      taufile |-> "taufile", vfile |-> "vfile", name |-> n, outdir |-> o] :
        n \in OptOf(CliValues), o \in OptOf(CliValues)}

\* ------------------------------------------------------- the other modules

\* sections.ZonalSections(file, config, var): the section object it returns,
\* on its own (native) grid.
ZonalSections(file, c, var) == [var |-> var, file |-> file, grid |-> var]

\* sections.interpolate(src, tgt): src's field on tgt's grid.
interpolate(src, tgt) == [var |-> src.var, file |-> src.file, grid |-> tgt.grid]

\* transports.calc_transports_from_sections(...): the result object; it
\* holds the output handle, which is open when the call returns.
TransObject == [obj |-> "trans"]

\* trans.filepath()
TransFilepath == <<"trans.nc">>

\* observations.<cls>(file, time_avg=time_avg): the observation object.
ObsObject(cls, file, time_avg) == [cls |-> cls, file |-> file, time_avg |-> time_avg]

\* -------------------------------------------------------------------- state

EnvInit == [t |-> None, s |-> None, tau |-> None, v |-> None,
            t_on_v |-> None, s_on_v |-> None, trans |-> None]

LocInit == [time_avg |-> None, obs_sf_f |-> None, obs_fc_f |-> None,
            obs_vol_f |-> None, obs_oht_f |-> None,
            obs_fc |-> None, obs_oht |-> None, obs_vol |-> None, obs_sf |-> None]

\* main(), lines 108-109: the arguments are parsed and the file is read.
Init ==
    /\ args \in ArgSets
    /\ fileConfig \in FileConfigs
    /\ config = fileConfig
    /\ pc = "merge_name"
    /\ err = ""
    /\ env = EnvInit
    /\ loc = LocInit
    /\ log = <<>>
    /\ handle = "none"

\* An exception leaves main(): nothing catches it.
Raise(e) == pc' = "failed" /\ err' = e

Goto(next) == pc' = next /\ err' = err

\* ---------------------------------------------------------------- main()

\* if args.name is not None: config.set('output', 'name', args.name)
MergeName ==
    /\ pc = "merge_name"
    /\ IF IsNone(args.name) THEN config' = config /\ Goto("merge_outdir")
       ELSE LET r == ConfigSet(config, "output", "name", Val(args.name))
            IN  /\ config' = r.config
                /\ IF r.ok THEN Goto("merge_outdir") ELSE Raise(r.err)
    /\ UNCHANGED <<args, fileConfig, env, loc, log, handle>>

\* if args.outdir is not None: config.set('output', 'outdir', args.outdir)
MergeOutdir ==
    /\ pc = "merge_outdir"
    /\ IF IsNone(args.outdir) THEN config' = config /\ Goto("read_t")
       ELSE LET r == ConfigSet(config, "output", "outdir", Val(args.outdir))
            IN  /\ config' = r.config
                /\ IF r.ok THEN Goto("read_t") ELSE Raise(r.err)
    /\ UNCHANGED <<args, fileConfig, env, loc, log, handle>>

SectionCall(file, var, ok) ==
    [op |-> "ZonalSections", ok |-> ok, file |-> file, config |-> config, var |-> var]

\* t = sections.ZonalSections(args.tfile, config, 'temperature')
ReadT ==
    /\ pc = "read_t"
    /\ \E ok \in BOOLEAN :
        /\ log' = Append(log, SectionCall(args.tfile, "temperature", ok))
        /\ IF ok
           THEN /\ env' = [env EXCEPT !.t = Some(ZonalSections(args.tfile, config, "temperature"))]
                /\ Goto("read_s")
           ELSE env' = env /\ Raise("DataLoadError")
    /\ UNCHANGED <<args, fileConfig, config, loc, handle>>

\* s = sections.ZonalSections(args.sfile, config, 'salinity')
ReadS ==
    /\ pc = "read_s"
    /\ \E ok \in BOOLEAN :
        /\ log' = Append(log, SectionCall(args.sfile, "salinity", ok))
        /\ IF ok
           THEN /\ env' = [env EXCEPT !.s = Some(ZonalSections(args.sfile, config, "salinity"))]
                /\ Goto("read_tau")
           ELSE env' = env /\ Raise("DataLoadError")
    /\ UNCHANGED <<args, fileConfig, config, loc, handle>>

\* tau = sections.ZonalSections(args.taufile, config, 'taux')
ReadTau ==
    /\ pc = "read_tau"
    /\ \E ok \in BOOLEAN :
        /\ log' = Append(log, SectionCall(args.taufile, "taux", ok))
        /\ IF ok
           THEN /\ env' = [env EXCEPT !.tau = Some(ZonalSections(args.taufile, config, "taux"))]
                /\ Goto("read_v")
           ELSE env' = env /\ Raise("DataLoadError")
    /\ UNCHANGED <<args, fileConfig, config, loc, handle>>

\* v = sections.ZonalSections(args.vfile, config, 'meridional_velocity')
ReadV ==
    /\ pc = "read_v"
    /\ \E ok \in BOOLEAN :
        /\ log' = Append(log, SectionCall(args.vfile, "meridional_velocity", ok))
        /\ IF ok
           THEN /\ env' = [env EXCEPT !.v = Some(ZonalSections(args.vfile, config, "meridional_velocity"))]
                /\ Goto("interp_t")
           ELSE env' = env /\ Raise("DataLoadError")
    /\ UNCHANGED <<args, fileConfig, config, loc, handle>>

\* t_on_v = sections.interpolate(t, v)
InterpT ==
    /\ pc = "interp_t"
    /\ \E ok \in BOOLEAN :
        /\ log' = Append(log, [op |-> "interpolate", ok |-> ok, src |-> env.t, tgt |-> env.v])
        /\ IF ok
           THEN /\ env' = [env EXCEPT !.t_on_v = Some(interpolate(Val(env.t), Val(env.v)))]
                /\ Goto("interp_s")
           ELSE env' = env /\ Raise("InterpolationError")
    /\ UNCHANGED <<args, fileConfig, config, loc, handle>>

\* s_on_v = sections.interpolate(s, v)
InterpS ==
    /\ pc = "interp_s"
    /\ \E ok \in BOOLEAN :
        /\ log' = Append(log, [op |-> "interpolate", ok |-> ok, src |-> env.s, tgt |-> env.v])
        /\ IF ok
           THEN /\ env' = [env EXCEPT !.s_on_v = Some(interpolate(Val(env.s), Val(env.v)))]
                /\ Goto("calc")
           ELSE env' = env /\ Raise("InterpolationError")
    /\ UNCHANGED <<args, fileConfig, config, loc, handle>>

\* Mutant of CalcTransports: the temperature section is passed on its own
\* grid (t in place of t_on_v).
CalcTransportsNative ==
    /\ pc = "calc"
    /\ \E ok \in BOOLEAN :
        /\ log' = Append(log, [op |-> "calc_transports_from_sections", ok |-> ok,
                               config |-> config, v |-> env.v, tau |-> env.tau,
                               t |-> env.t, s |-> env.s_on_v])
        /\ IF ok
           THEN /\ env' = [env EXCEPT !.trans = Some(TransObject)]
                /\ handle' = "open"
                /\ Goto("check_plot")
           ELSE env' = env /\ handle' = handle /\ Raise("ComputationError")
    /\ UNCHANGED <<args, fileConfig, config, loc>>

\* trans = transports.calc_transports_from_sections(config, v, tau, t_on_v, s_on_v)
CalcTransports ==
    /\ pc = "calc"
    /\ \E ok \in BOOLEAN :
        /\ log' = Append(log, [op |-> "calc_transports_from_sections", ok |-> ok,
                               config |-> config, v |-> env.v, tau |-> env.tau,
                               t |-> env.t_on_v, s |-> env.s_on_v])
        /\ IF ok
           THEN /\ env' = [env EXCEPT !.trans = Some(TransObject)]
                /\ handle' = "open"
                /\ Goto("check_plot")
           ELSE env' = env /\ handle' = handle /\ Raise("ComputationError")
    /\ UNCHANGED <<args, fileConfig, config, loc>>

\* Mutant of CheckPlot: the statement sits in a try whose finally clause
\* closes the result, so a raise leaves the handle closed.
CheckPlotClosing ==
    /\ pc = "check_plot"
    /\ LET b == ConfigGetBoolean(config, "output", "plot")
       IN  IF ~b.ok THEN handle' = "closed" /\ Raise(b.err)
           ELSE IF b.val THEN handle' = handle /\ Goto("pd_opts")
           ELSE handle' = handle /\ Goto("save")
    /\ UNCHANGED <<args, fileConfig, config, env, loc, log>>

\* Mutant of CheckPlot: call_plotdiag is called whatever output.plot says.
CheckPlotAlways ==
    /\ pc = "check_plot"
    /\ LET b == ConfigGetBoolean(config, "output", "plot")
       IN  IF ~b.ok THEN Raise(b.err) ELSE Goto("pd_opts")
    /\ UNCHANGED <<args, fileConfig, config, env, loc, log, handle>>

\* if config.getboolean('output', 'plot'): call_plotdiag(config, trans)
CheckPlot ==
    /\ pc = "check_plot"
    /\ LET b == ConfigGetBoolean(config, "output", "plot")
       IN  IF ~b.ok THEN Raise(b.err)
           ELSE IF b.val THEN Goto("pd_opts")
           ELSE Goto("save")
    /\ UNCHANGED <<args, fileConfig, config, env, loc, log, handle>>

\* Mutant of SavePrint: the path is asked for and not printed.
SavePrintSilent ==
    /\ pc = "save"
    /\ \E ok \in BOOLEAN :
        /\ log' = Append(log, [op |-> "filepath", ok |-> ok, trans |-> env.trans])
        /\ IF ok THEN Goto("close") ELSE Raise("RuntimeError")
    /\ UNCHANGED <<args, fileConfig, config, env, loc, handle>>

\* print('SAVING: %s' % trans.filepath())
SavePrint ==
    /\ pc = "save"
    /\ \E ok \in BOOLEAN :
        IF ok
        THEN /\ log' = log \o <<[op |-> "filepath", ok |-> TRUE, trans |-> env.trans],
                                [op |-> "print", ok |-> TRUE, text |-> <<"SAVING: ">> \o TransFilepath]>>
             /\ Goto("close")
        ELSE /\ log' = Append(log, [op |-> "filepath", ok |-> FALSE, trans |-> env.trans])
             /\ Raise("RuntimeError")
    /\ UNCHANGED <<args, fileConfig, config, env, loc, handle>>

\* trans.close()
Close ==
    /\ pc = "close"
    /\ log' = Append(log, [op |-> "close", ok |-> TRUE, trans |-> env.trans])
    /\ handle' = "closed"
    /\ Goto("done")
    /\ UNCHANGED <<args, fileConfig, config, env, loc>>

\* ------------------------------------------------------- call_plotdiag()

\* Mutant of PdGetOpts: an absent time_avg is written into the configuration
\* as a default.
PdGetOptsDefaulting ==
    /\ pc = "pd_opts"
    /\ loc' = [time_avg  |-> get_config_opt(config, "observations", "time_avg"),
               obs_sf_f  |-> get_config_opt(config, "observations", "streamfunctions"),
               obs_fc_f  |-> get_config_opt(config, "observations", "florida_current"),
               obs_vol_f |-> get_config_opt(config, "observations", "volume_transports"),
               obs_oht_f |-> get_config_opt(config, "observations", "heat_transports"),
               obs_fc |-> None, obs_oht |-> None, obs_vol |-> None, obs_sf |-> None]
    /\ config' = IF HasOption(config, "observations", "time_avg") THEN config
                 ELSE ConfigSet(config, "observations", "time_avg", <<"none">>).config
    /\ Goto("pd_oht")
    /\ UNCHANGED <<args, fileConfig, env, log, handle>>

\* Lines 74-81: the observation objects start as None; time_avg and the four
\* file paths are read with get_config_opt.
PdGetOpts ==
    /\ pc = "pd_opts"
    /\ loc' = [time_avg  |-> get_config_opt(config, "observations", "time_avg"),
               obs_sf_f  |-> get_config_opt(config, "observations", "streamfunctions"),
               obs_fc_f  |-> get_config_opt(config, "observations", "florida_current"),
               obs_vol_f |-> get_config_opt(config, "observations", "volume_transports"),
               obs_oht_f |-> get_config_opt(config, "observations", "heat_transports"),
               obs_fc |-> None, obs_oht |-> None, obs_vol |-> None, obs_sf |-> None]
    /\ Goto("pd_oht")
    /\ UNCHANGED <<args, fileConfig, config, env, log, handle>>

\* Mutant of LoaderCall: time_avg is not passed on.
LoaderCallNoAvg(cls, file, ok) ==
    [op |-> cls, ok |-> ok, file |-> file, time_avg |-> None]

LoaderCall(cls, file, ok) ==
    [op |-> cls, ok |-> ok, file |-> file, time_avg |-> loc.time_avg]

\* if obs_oht_f is not None:
\*     obs_oht = observations.HeatTransportObs(obs_oht_f, time_avg=time_avg)
PdLoadOht ==
    /\ pc = "pd_oht"
    /\ IF IsNone(loc.obs_oht_f) THEN loc' = loc /\ log' = log /\ Goto("pd_fc")
       ELSE \E ok \in BOOLEAN :
            /\ log' = Append(log, LoaderCall("HeatTransportObs", Val(loc.obs_oht_f), ok))
            /\ IF ok
               THEN /\ loc' = [loc EXCEPT !.obs_oht =
                        Some(ObsObject("HeatTransportObs", Val(loc.obs_oht_f), loc.time_avg))]
                    /\ Goto("pd_fc")
               ELSE loc' = loc /\ Raise("DataLoadError")
    /\ UNCHANGED <<args, fileConfig, config, env, handle>>

\* Mutant of PdLoadFc: a loader that raises is caught and the kind is left
\* as None.
PdLoadFcSwallow ==
    /\ pc = "pd_fc"
    /\ IF IsNone(loc.obs_fc_f) THEN loc' = loc /\ log' = log /\ Goto("pd_sf")
       ELSE \E ok \in BOOLEAN :
            /\ log' = Append(log, LoaderCall("FloridaCurrentObs", Val(loc.obs_fc_f), ok))
            /\ loc' = IF ok
                      THEN [loc EXCEPT !.obs_fc =
                              Some(ObsObject("FloridaCurrentObs", Val(loc.obs_fc_f), loc.time_avg))]
                      ELSE loc
            /\ Goto("pd_sf")
    /\ UNCHANGED <<args, fileConfig, config, env, handle>>

\* if obs_fc_f is not None:
\*     obs_fc = observations.FloridaCurrentObs(obs_fc_f, time_avg=time_avg)
PdLoadFc ==
    /\ pc = "pd_fc"
    /\ IF IsNone(loc.obs_fc_f) THEN loc' = loc /\ log' = log /\ Goto("pd_sf")
       ELSE \E ok \in BOOLEAN :
            /\ log' = Append(log, LoaderCall("FloridaCurrentObs", Val(loc.obs_fc_f), ok))
            /\ IF ok
               THEN /\ loc' = [loc EXCEPT !.obs_fc =
                        Some(ObsObject("FloridaCurrentObs", Val(loc.obs_fc_f), loc.time_avg))]
                    /\ Goto("pd_sf")
               ELSE loc' = loc /\ Raise("DataLoadError")
    /\ UNCHANGED <<args, fileConfig, config, env, handle>>

\* if obs_sf_f is not None:
\*     obs_sf = observations.StreamFunctionObs(obs_sf_f, time_avg=time_avg)
PdLoadSf ==
    /\ pc = "pd_sf"
    /\ IF IsNone(loc.obs_sf_f) THEN loc' = loc /\ log' = log /\ Goto("pd_vol")
       ELSE \E ok \in BOOLEAN :
            /\ log' = Append(log, LoaderCall("StreamFunctionObs", Val(loc.obs_sf_f), ok))
            /\ IF ok
               THEN /\ loc' = [loc EXCEPT !.obs_sf =
                        Some(ObsObject("StreamFunctionObs", Val(loc.obs_sf_f), loc.time_avg))]
                    /\ Goto("pd_vol")
               ELSE loc' = loc /\ Raise("DataLoadError")
    /\ UNCHANGED <<args, fileConfig, config, env, handle>>

\* if obs_vol_f is not None:
\*     obs_vol = observations.VolumeTransportObs(obs_vol_f, time_avg=time_avg)
PdLoadVol ==
    /\ pc = "pd_vol"
    /\ IF IsNone(loc.obs_vol_f) THEN loc' = loc /\ log' = log /\ Goto("pd_plot")
       ELSE \E ok \in BOOLEAN :
            /\ log' = Append(log, LoaderCall("VolumeTransportObs", Val(loc.obs_vol_f), ok))
            /\ IF ok
               THEN /\ loc' = [loc EXCEPT !.obs_vol =
                        Some(ObsObject("VolumeTransportObs", Val(loc.obs_vol_f), loc.time_avg))]
                    /\ Goto("pd_plot")
               ELSE loc' = loc /\ Raise("DataLoadError")
    /\ UNCHANGED <<args, fileConfig, config, env, handle>>

\* Mutant of PlotCall: the Florida Current and volume transport observations
\* are handed over under each other's keyword.
PlotCallSwapped(outdir, date_format, name, ok) ==
    [op |-> "plot_diagnostics", ok |-> ok, trans |-> env.trans,
     name |-> name, outdir |-> outdir, date_format |-> date_format,
     obs_vol |-> loc.obs_fc, obs_fc |-> loc.obs_vol,
     obs_oht |-> loc.obs_oht, obs_sf |-> loc.obs_sf]

PlotCall(outdir, date_format, name, ok) ==
    [op |-> "plot_diagnostics", ok |-> ok, trans |-> env.trans,
     name |-> name, outdir |-> outdir, date_format |-> date_format,
     obs_vol |-> loc.obs_vol, obs_fc |-> loc.obs_fc,
     obs_oht |-> loc.obs_oht, obs_sf |-> loc.obs_sf]

\* Mutant of PdPlot: a plot_diagnostics that raises is caught and the run
\* goes on to the save step.
PdPlotSwallow ==
    /\ pc = "pd_plot"
    /\ LET outdir == ConfigGet(config, "output", "outdir")
           date_format == ConfigGet(config, "output", "date_format")
           name == ConfigGet(config, "output", "name")
       IN  IF ~outdir.ok THEN log' = log /\ Raise(outdir.err)
           ELSE IF ~date_format.ok THEN log' = log /\ Raise(date_format.err)
           ELSE IF ~name.ok THEN log' = log /\ Raise(name.err)
           ELSE \E ok \in BOOLEAN :
                /\ log' = Append(log, PlotCall(outdir.val, date_format.val, name.val, ok))
                /\ Goto("save")
    /\ UNCHANGED <<args, fileConfig, config, env, loc, handle>>

\* Lines 97-103: outdir, date_format and name are read from [output], in that
\* order, and plot_diagnostics is called; call_plotdiag then returns to main().
PdPlot ==
    /\ pc = "pd_plot"
    /\ LET outdir == ConfigGet(config, "output", "outdir")
           date_format == ConfigGet(config, "output", "date_format")
           name == ConfigGet(config, "output", "name")
       IN  IF ~outdir.ok THEN log' = log /\ Raise(outdir.err)
           ELSE IF ~date_format.ok THEN log' = log /\ Raise(date_format.err)
           ELSE IF ~name.ok THEN log' = log /\ Raise(name.err)
           ELSE \E ok \in BOOLEAN :
                /\ log' = Append(log, PlotCall(outdir.val, date_format.val, name.val, ok))
                /\ IF ok THEN Goto("save") ELSE Raise("PlotError")
    /\ UNCHANGED <<args, fileConfig, config, env, loc, handle>>

\* ------------------------------------------------------------ specification

Next ==
    \/ MergeName
    \/ MergeOutdir
    \/ ReadT
    \/ ReadS
    \/ ReadTau
    \/ ReadV
    \/ InterpT
    \/ InterpS
    \/ CalcTransports
    \/ CheckPlot
    \/ PdGetOpts
    \/ PdLoadOht
    \/ PdLoadFc
    \/ PdLoadSf
    \/ PdLoadVol
    \/ PdPlot
    \/ SavePrint
    \/ Close

Spec == Init /\ [][Next]_vars

\* ------------------------------------------------------ reading the history

Idx(op) == {i \in 1..Len(log) : log[i].op = op}
Called(op) == Idx(op) # {}

\* The loader class and the plot_diagnostics keyword of each observation kind.
LoaderCls(k) ==
    CASE k = "heat_transports" -> "HeatTransportObs"
      [] k = "florida_current" -> "FloridaCurrentObs"
      [] k = "streamfunctions" -> "StreamFunctionObs"
      [] k = "volume_transports" -> "VolumeTransportObs"

PlotArg(e, k) ==
    CASE k = "heat_transports" -> e.obs_oht
      [] k = "florida_current" -> e.obs_fc
      [] k = "streamfunctions" -> e.obs_sf
      [] k = "volume_transports" -> e.obs_vol

LoaderClasses == {LoaderCls(k) : k \in ObsKeys}
LoaderIdx == {i \in 1..Len(log) : log[i].op \in LoaderClasses}

\* The kind's entry is present in the configuration file.
KeyPresent(k) == HasOption(fileConfig, "observations", k)

\* The path the configuration file gives for a kind whose entry is present.
ConfiguredPath(k) == ConfigGet(fileConfig, "observations", k).val

\* What output.plot of the configuration file says.
PlotFlag == ConfigGetBoolean(fileConfig, "output", "plot")
PlotTrue == PlotFlag.ok /\ PlotFlag.val
PlotFalse == PlotFlag.ok /\ ~PlotFlag.val

\* call_plotdiag() has gone through its four loading statements.
LoadingDone == pc = "pd_plot" \/ Called("plot_diagnostics")

Ended == pc \in {"done", "failed"}

\* ------------------------------------------------------------------ claims

\* C1: in call_plotdiag, for each of the four observation kinds and every
\* combination of present and absent keys: a loader is invoked only for a
\* kind whose key is present; once the loading statements are passed, the
\* kind's loader has been invoked (once) if and only if its key is present;
\* and plot_diagnostics is handed the object its loader built from the
\* configured path if the key is present, and None if it is absent.
C1_ObservationsGatedByKey ==
    \A k \in ObsKeys :
        /\ Called(LoaderCls(k)) => KeyPresent(k)
        /\ Cardinality(Idx(LoaderCls(k))) <= 1
        /\ LoadingDone => (Called(LoaderCls(k)) <=> KeyPresent(k))
        /\ \A i \in Idx("plot_diagnostics") :
            IF KeyPresent(k)
            THEN /\ \E j \in Idx(LoaderCls(k)) : j < i /\ log[j].ok
                 /\ ~IsNone(PlotArg(log[i], k))
                 /\ Val(PlotArg(log[i], k)).cls = LoaderCls(k)
                 /\ Val(PlotArg(log[i], k)).file = ConfiguredPath(k)
            ELSE IsNone(PlotArg(log[i], k))

\* C1 witness: plot_diagnostics has been called in a run whose configuration
\* names heat_transports and volume_transports and omits the other two.
C1_Witness ==
    /\ Called("plot_diagnostics")
    /\ KeyPresent("heat_transports") /\ KeyPresent("volume_transports")
    /\ ~KeyPresent("florida_current") /\ ~KeyPresent("streamfunctions")

\* The value a stage finds stored for an option of [output] in the
\* configuration object it is handed.
Stored(c, option) == c.opts[<<"output", option>>]

\* C2 (as stated): with --outdir (--name) supplied, every stage handed the
\* configuration finds the command-line value in it and plot_diagnostics is
\* handed the command-line value; without it, the file's value.
C2_OverrideObserved ==
    \A i \in 1..Len(log) :
        LET e == log[i]
            want(option, arg) ==
                IF IsNone(arg) THEN ConfigGet(fileConfig, "output", option).val
                ELSE Val(arg)
        IN  /\ (e.op \in {"ZonalSections", "calc_transports_from_sections"}
                    /\ HasSection(fileConfig, "output")) =>
                /\ Stored(e.config, "outdir") =
                       (IF IsNone(args.outdir) THEN Stored(fileConfig, "outdir")
                        ELSE Val(args.outdir))
                /\ Stored(e.config, "name") =
                       (IF IsNone(args.name) THEN Stored(fileConfig, "name")
                        ELSE Val(args.name))
            /\ e.op = "plot_diagnostics" =>
                /\ e.outdir = want("outdir", args.outdir)
                /\ e.name = want("name", args.name)

\* Holds of the model: the override does take precedence, what is handed on
\* being the value as config.get reads it back ("%%" read as "%").
OverrideReadBack ==
    \A i \in Idx("plot_diagnostics") :
        /\ IsNone(args.outdir) => log[i].outdir = ConfigGet(fileConfig, "output", "outdir").val
        /\ ~IsNone(args.outdir) => log[i].outdir = Interpolate(Val(args.outdir)).val
        /\ IsNone(args.name) => log[i].name = ConfigGet(fileConfig, "output", "name").val
        /\ ~IsNone(args.name) => log[i].name = Interpolate(Val(args.name)).val

\* The rank of a call in the order main() is to make them.
Rank(e) ==
    CASE e.op = "ZonalSections" ->
            (CASE e.var = "temperature" -> 1
               [] e.var = "salinity" -> 2
               [] e.var = "taux" -> 3
               [] e.var = "meridional_velocity" -> 4)
      [] e.op = "interpolate" ->
            (IF e.src # None /\ Val(e.src).var = "temperature" THEN 5 ELSE 6)
      [] e.op = "calc_transports_from_sections" -> 7
      [] e.op \in LoaderClasses -> 8
      [] e.op = "plot_diagnostics" -> 9
      [] e.op = "filepath" -> 10
      [] e.op = "print" -> 11
      [] e.op = "close" -> 12

IsSection(o, var, file) ==
    ~IsNone(o) /\ Val(o).var = var /\ Val(o).file = file

\* C3: the calls are made in the order: the four section loads (temperature,
\* salinity, wind stress, velocity), the two interpolations onto the velocity
\* section, calc_transports_from_sections (on the velocity and wind-stress
\* sections and the two interpolated sections, never a temperature or
\* salinity section on its own grid), the observation loaders, the reporter,
\* the save step; a call is made only after the one before it has returned;
\* and no stage is executed twice.
C3_StagesInOrder ==
    /\ \A i, j \in 1..Len(log) :
        i < j => /\ Rank(log[i]) <= Rank(log[j])
                 /\ Rank(log[i]) = Rank(log[j]) => log[i].op \in LoaderClasses
                 /\ log[i].ok
    /\ \A i \in 1..Len(log) :
        /\ Rank(log[i]) <= 7 => Rank(log[i]) = i
        /\ Rank(log[i]) > 7 => i > 7
    /\ \A i \in Idx("interpolate") :
        /\ IsSection(log[i].tgt, "meridional_velocity", args.vfile)
        /\ Val(log[i].tgt).grid = "meridional_velocity"
        /\ ~IsNone(log[i].src) /\ Val(log[i].src).grid = Val(log[i].src).var
    /\ \A i \in Idx("calc_transports_from_sections") :
        LET e == log[i]
        IN  /\ IsSection(e.v, "meridional_velocity", args.vfile)
            /\ IsSection(e.tau, "taux", args.taufile)
            /\ IsSection(e.t, "temperature", args.tfile)
            /\ IsSection(e.s, "salinity", args.sfile)
            /\ Val(e.t).grid = Val(e.v).grid /\ Val(e.t).grid # Val(e.t).var
            /\ Val(e.s).grid = Val(e.v).grid /\ Val(e.s).grid # Val(e.s).var

\* C3 witness: a run that went through every stage, two loaders included.
C3_Witness ==
    /\ pc = "done"
    /\ Called("HeatTransportObs") /\ Called("VolumeTransportObs")
    /\ Called("plot_diagnostics") /\ Called("close")

\* C4 (as stated): once the output handle is acquired, every exit of the run
\* leaves it closed.
C4_ClosedOnEveryExit ==
    (Ended /\ handle # "none") => handle = "closed"

\* C4 (amended): the output handle is closed on the normal exit only.  A run
\* that ends normally has closed it; a run that fails after
\* calc_transports_from_sections returned (reading output.plot, an
\* observation loader, plot_diagnostics, the reads of [output] before it, or
\* filepath() raising) ends with the handle still open and no close() made.
C4_ClosedOnNormalExitOnly ==
    /\ pc = "done" => handle = "closed"
    /\ (pc = "failed" /\ handle # "none") => (handle = "open" /\ ~Called("close"))
    /\ handle = "closed" => pc = "done"

\* C4 witness: plot_diagnostics raised after the handle was acquired.
C4_Witness ==
    /\ pc = "failed" /\ handle = "open"
    /\ \E i \in Idx("plot_diagnostics") : ~log[i].ok

\* C5: a call that raises ends the run: the exception leaves main() (the run
\* is at "failed" with the error recorded), the failed call is the last call
\* made and nothing can follow it, and the save step has not run: no path was
\* printed and the result was not closed.
C5_FailureEndsRun ==
    /\ \A i \in 1..Len(log) : ~log[i].ok => (pc = "failed" /\ i = Len(log))
    /\ pc = "failed" =>
        /\ err # ""
        /\ ~Called("print") /\ ~Called("close") /\ handle # "closed"
        /\ ~ENABLED Next

\* C5 witness: the temperature section could not be loaded.
C5_Witness ==
    /\ pc = "failed" /\ Len(log) = 1
    /\ log[1].op = "ZonalSections" /\ log[1].var = "temperature" /\ ~log[1].ok

\* C6: a run that ends without a failure closed the result exactly once, as
\* its last action, after the reporter (if invoked) returned, and printed the
\* output path just before; the result is never closed twice.
C6_ClosedOnceAtEnd ==
    /\ Cardinality(Idx("close")) <= 1
    /\ pc = "done" =>
        /\ handle = "closed"
        /\ Idx("close") = {Len(log)}
        /\ log[Len(log) - 1] = [op |-> "print", ok |-> TRUE,
                                text |-> <<"SAVING: ">> \o TransFilepath]
        /\ log[Len(log) - 2].op = "filepath" /\ log[Len(log) - 2].ok
        /\ \A i \in Idx("plot_diagnostics") : i < Len(log) - 2 /\ log[i].ok
        /\ ~ENABLED Next

\* C6 witness: a run with the reporter invoked has ended normally.
C6_Witness ==
    pc = "done" /\ Called("plot_diagnostics") /\ handle = "closed"

\* C7: plot_diagnostics is invoked at most once and only when output.plot is
\* true; a run that gets past the plotting statement has invoked it if and
\* only if output.plot is true; and every run that ends normally has printed
\* the path and closed the result, whatever output.plot says.
C7_ReporterGatedByPlot ==
    /\ Cardinality(Idx("plot_diagnostics")) <= 1
    /\ Called("plot_diagnostics") => PlotTrue
    /\ pc \in {"save", "close", "done"} =>
        /\ PlotTrue \/ PlotFalse
        /\ Called("plot_diagnostics") <=> PlotTrue
    /\ pc = "done" => (Called("print") /\ Called("close") /\ handle = "closed")

\* C7 witness: a run with output.plot false has been saved, the reporter not
\* invoked.
C7_Witness ==
    pc = "done" /\ PlotFalse /\ ~Called("plot_diagnostics") /\ handle = "closed"

\* C8: the configuration is written only while the overrides are merged: no
\* step from the first section load on changes it, so every stage handed the
\* configuration is handed the same one.
C8_ConfigFrozenAfterMerge ==
    /\ [][pc \notin {"merge_name", "merge_outdir"} => config' = config]_vars
    /\ [](\A i \in 1..Len(log) :
            log[i].op \in {"ZonalSections", "calc_transports_from_sections"} =>
                log[i].config = config)

\* C8 witness: call_plotdiag has run in a run whose outdir was overridden.
C8_Witness ==
    /\ Called("plot_diagnostics") /\ pc = "save"
    /\ config # fileConfig /\ ~IsNone(args.outdir)

\* C9: when the loader of a configured kind raises, the run is over and
\* plot_diagnostics has not been and cannot be invoked; plot_diagnostics is
\* never handed None for a kind whose key is present.
C9_LoaderFailureIsFatal ==
    /\ \A i \in LoaderIdx : ~log[i].ok =>
        /\ pc = "failed" /\ err = "DataLoadError"
        /\ ~Called("plot_diagnostics")
        /\ ~ENABLED PdPlot
    /\ \A i \in Idx("plot_diagnostics"), k \in ObsKeys :
        KeyPresent(k) => ~IsNone(PlotArg(log[i], k))

\* C9 witness: the Florida Current loader raised after the heat transport
\* loader had returned.
C9_Witness ==
    /\ pc = "failed"
    /\ \E i \in Idx("FloridaCurrentObs") : ~log[i].ok
    /\ \E i \in Idx("HeatTransportObs") : log[i].ok

LoaderRank(op) ==
    CASE op = "HeatTransportObs" -> 1
      [] op = "FloridaCurrentObs" -> 2
      [] op = "StreamFunctionObs" -> 3
      [] op = "VolumeTransportObs" -> 4

\* C10: a loader is invoked only when output.plot is true, so a run with
\* output.plot false makes no loader call whatever keys are configured and
\* cannot fail in one; the loaders that run do so in the order heat
\* transport, Florida Current, streamfunction, volume transport, each with
\* the configured path of its own kind and the same time_avg, which is None
\* when time_avg is absent from the configuration.
C10_LoadingGatedByPlotAndOrdered ==
    /\ LoaderIdx # {} => PlotTrue
    /\ (PlotFalse /\ pc = "failed" /\ log # <<>>) => log[Len(log)].op \notin LoaderClasses
    /\ (PlotTrue /\ LoadingDone) => \A k \in ObsKeys : KeyPresent(k) => Called(LoaderCls(k))
    /\ \A i, j \in LoaderIdx : i < j => LoaderRank(log[i].op) < LoaderRank(log[j].op)
    /\ \A i \in LoaderIdx :
        /\ log[i].time_avg = get_config_opt(fileConfig, "observations", "time_avg")
        /\ \E k \in ObsKeys : log[i].op = LoaderCls(k) /\ log[i].file = ConfiguredPath(k)

\* C10 witness: a run with output.plot false and all four keys configured
\* has ended normally.
C10_Witness ==
    /\ pc = "done" /\ PlotFalse
    /\ \A k \in ObsKeys : KeyPresent(k)
    /\ LoaderIdx = {}

====
